---- MODULE Spec2Model ----
(***************************************************************************)
(* NanoTemp dashboard (src/main.py): the record normalizer                 *)
(* fetch_temperature_data, the range filter filter_data_by_datetime_range  *)
(* and the render / polling loop of main.                                  *)
(*                                                                         *)
(* Representation.  A Python str is a sequence of one-character strings    *)
(* ("10" is <<"1","0">>).  A dict is the sequence of its items in          *)
(* iteration order, each item <<key, value>>, with pairwise distinct keys. *)
(* A timezone-aware UTC datetime is its number of seconds since the epoch  *)
(* (fromtimestamp(int) never has a sub-second part).  A date is its number *)
(* of days since 1970-01-01 and a time of day its second of the day.       *)
(* A DataFrame is the sequence of its rows.  A streamlit placeholder is    *)
(* <<>> while empty and <<content>> once something was written into it.    *)
(***************************************************************************)
EXTENDS Integers, Sequences, FiniteSets, TLC

VARIABLES pc, temp_data, df, ret, session_state, filtered_df,
          chart_placeholder, latest_temp_placeholder,
          latest_time_placeholder, download, exc

vars == <<pc, temp_data, df, ret, session_state, filtered_df,
          chart_placeholder, latest_temp_placeholder,
          latest_time_placeholder, download, exc>>

(***************************************************************************)
(* Bounds and input alphabets.                                             *)
(***************************************************************************)
MaxEntries == 3

MaxPollEntries == 2

Keys == {<<"1">>, <<"9">>, <<"1", "0">>, <<"0", "9">>, <<"1", "9">>,
         <<"a">>, <<"1", "a">>}

PollKeys == {<<"9">>, <<"1", "0">>, <<"0", "9">>, <<"a">>}

Temps == {20, 25}

FilterDates == {0, 1}

FilterTimes == {1, 10, 19}

PollDates == {0}

PollTimes == {0, 10}

SecondsPerDay == 86400

(***************************************************************************)
(* int(str) on the modelled alphabet: a non-empty string of decimal digits *)
(* is its value (leading zeros allowed, int("09") = 9); anything else      *)
(* raises ValueError.                                                      *)
(***************************************************************************)
DigitChars == <<"0", "1", "2", "3", "4", "5", "6", "7", "8", "9">>

IsDigit(c) == \E d \in 1..10 : DigitChars[d] = c

DigitValue(c) == (CHOOSE d \in 1..10 : DigitChars[d] = c) - 1

Parses(s) == Len(s) > 0 /\ \A i \in 1..Len(s) : IsDigit(s[i])

IntOf(s) ==
  LET v[n \in 0..Len(s)] ==
        IF n = 0 THEN 0 ELSE 10 * v[n - 1] + DigitValue(s[n])
  IN  v[Len(s)]

(***************************************************************************)
(* strftime("%H:%M:%S %d/%m/%Y") of a UTC instant.                         *)
(***************************************************************************)
Pad2(n) == <<DigitChars[((n \div 10) % 10) + 1], DigitChars[(n % 10) + 1]>>

Pad4(n) == Pad2(n \div 100) \o Pad2(n % 100)

CivilFromDays(days) ==
  LET z   == days + 719468
      era == z \div 146097
      doe == z - era * 146097
      yoe == (doe - doe \div 1460 + doe \div 36524 - doe \div 146096) \div 365
      doy == doe - (365 * yoe + yoe \div 4 - yoe \div 100)
      mp  == (5 * doy + 2) \div 153
      d   == doy - (153 * mp + 2) \div 5 + 1
      m   == IF mp < 10 THEN mp + 3 ELSE mp - 9
      y   == yoe + era * 400 + (IF m <= 2 THEN 1 ELSE 0)
  IN  [Y |-> y, m |-> m, d |-> d]

strftime(dt) ==
  LET sod == dt % SecondsPerDay
      ymd == CivilFromDays(dt \div SecondsPerDay)
  IN  Pad2(sod \div 3600) \o <<":">> \o Pad2((sod \div 60) % 60) \o <<":">>
        \o Pad2(sod % 60) \o <<" ">> \o Pad2(ymd.d) \o <<"/">>
        \o Pad2(ymd.m) \o <<"/">> \o Pad4(ymd.Y)

format_timestamp(unix_timestamp) ==
  LET dt == IntOf(unix_timestamp)
  IN  <<strftime(dt), dt>>

(***************************************************************************)
(* sorted(temp_data.items(), key=lambda x: int(x[0])): a stable sort.      *)
(***************************************************************************)
IntKeyGeq(a, b) == IntOf(a[1]) >= IntOf(b[1])

(* key=lambda x: int(x[0]), compared ascending *)
IntKeyLeq(a, b) == IntOf(a[1]) <= IntOf(b[1])

(* x goes after every element that is not greater: the sort is stable *)
Insert(s, x) ==
  LET p == Cardinality({i \in 1..Len(s) : IntKeyLeq(s[i], x)})
  IN  SubSeq(s, 1, p) \o <<x>> \o SubSeq(s, p + 1, Len(s))

CharCode(c) == CHOOSE k \in 1..11 : (DigitChars \o <<"a">>)[k] = c

StrLess(a, b) ==
  \/ \E i \in 1..Len(a) :
       /\ i <= Len(b)
       /\ \A j \in 1..(i - 1) : a[j] = b[j]
       /\ CharCode(a[i]) < CharCode(b[i])
  \/ Len(a) < Len(b) /\ \A j \in 1..Len(a) : a[j] = b[j]

StrKeyLeq(a, b) == a[1] = b[1] \/ StrLess(a[1], b[1])

InsertLexicographic(s, x) ==
  LET p == Cardinality({i \in 1..Len(s) : StrKeyLeq(s[i], x)})
  IN  SubSeq(s, 1, p) \o <<x>> \o SubSeq(s, p + 1, Len(s))

SortedItemsLexicographic(items) ==
  LET f[n \in 0..Len(items)] ==
        IF n = 0 THEN <<>> ELSE InsertLexicographic(f[n - 1], items[n])
  IN  f[Len(items)]

SortedItems(items) ==
  LET f[n \in 0..Len(items)] ==
        IF n = 0 THEN <<>> ELSE Insert(f[n - 1], items[n])
  IN  f[Len(items)]

(***************************************************************************)
(* What ref.get() can hand back: the read fails (an exception), the path   *)
(* is absent (None), or a dict of at most n items over the given keys.     *)
(***************************************************************************)
Dicts(keys, n) ==
  {d \in UNION {[1..k -> keys \X Temps] : k \in 0..n} :
     \A i, j \in 1..Len(d) : i # j => d[i][1] # d[j][1]}

NoneValue == [kind |-> "None", rows |-> <<>>, error |-> "none"]

Raise(e) == [kind |-> "raise", rows |-> <<>>, error |-> e]

DataFrame(rows) == [kind |-> "DataFrame", rows |-> rows, error |-> "none"]

Replies(keys, n) ==
  {[kind |-> "raise", items |-> <<>>], [kind |-> "None", items |-> <<>>]}
    \cup {[kind |-> "dict", items |-> d] : d \in Dicts(keys, n)}

Row(item) ==
  LET ft == format_timestamp(item[1])
  IN  [Timestamp |-> ft[2], FormattedTime |-> ft[1], Temperature |-> item[2]]

RowsOfSkippingMalformed(items) ==
  LET good == SelectSeq(items, LAMBDA it : Parses(it[1]))
      srt  == SortedItems(good)
  IN  DataFrame([i \in 1..Len(srt) |-> Row(srt[i])])

RowsOfDeduplicated(items) ==
  LET srt  == SortedItems(items)
      keep == {i \in 1..Len(srt) :
                 \A j \in 1..(i - 1) : IntOf(srt[j][1]) # IntOf(srt[i][1])}
      pick[n \in 0..Len(srt)] ==
        IF n = 0 THEN <<>>
        ELSE IF n \in keep THEN Append(pick[n - 1], Row(srt[n]))
        ELSE pick[n - 1]
  IN  IF \E i \in 1..Len(items) : ~Parses(items[i][1])
      THEN Raise("ValueError")
      ELSE DataFrame(pick[Len(srt)])

(* Lines 73-82: the loop over the sorted items; int() of a malformed key   *)
(* raises inside sorted() before any row is built.                         *)
RowsOf(items) ==
  IF \E i \in 1..Len(items) : ~Parses(items[i][1])
  THEN Raise("ValueError")
  ELSE LET srt == SortedItems(items)
       IN  DataFrame([i \in 1..Len(srt) |-> Row(srt[i])])

fetch_unguarded(reply) ==
  IF reply.kind = "raise" THEN Raise("FirebaseError")
  ELSE IF reply.kind = "None" THEN Raise("AttributeError")
  ELSE RowsOf(reply.items)

fetch_temperature_data(reply) ==
  IF reply.kind = "raise" THEN Raise("FirebaseError")
  ELSE IF reply.kind = "dict" /\ Len(reply.items) > 0 THEN RowsOf(reply.items)
  ELSE NoneValue

(***************************************************************************)
(* filter_data_by_datetime_range: datetime.combine(date, time) in UTC and  *)
(* the boolean mask df[(Timestamp >= start) & (Timestamp <= end)].         *)
(***************************************************************************)
combine(date, time) == date * SecondsPerDay + time

MaskExclusiveEnd(rows, start_datetime, end_datetime) ==
  [i \in 1..Len(rows) |->
     rows[i].Timestamp >= start_datetime /\ rows[i].Timestamp < end_datetime]

Mask(rows, start_datetime, end_datetime) ==
  [i \in 1..Len(rows) |->
     rows[i].Timestamp >= start_datetime /\ rows[i].Timestamp <= end_datetime]

Select(rows, mask) ==
  LET f[n \in 0..Len(rows)] ==
        IF n = 0 THEN <<>>
        ELSE IF mask[n] THEN Append(f[n - 1], rows[n]) ELSE f[n - 1]
  IN  f[Len(rows)]

filter_data_by_datetime_range(rows, start_date, start_time, end_date, end_time) ==
  LET start_datetime == combine(start_date, start_time)
      end_datetime   == combine(end_date, end_time)
  IN  Select(rows, Mask(rows, start_datetime, end_datetime))

Session(dates, times) ==
  [start_date : dates, start_time : times, end_date : dates, end_time : times]

NoSession == [start_date |-> 0, start_time |-> 0, end_date |-> 0, end_time |-> 0]

(***************************************************************************)
(* main: what the placeholders and the download section show.              *)
(***************************************************************************)
NoWidget == [widget |-> "none", data |-> <<>>]

NoException == [error |-> "none", line |-> 0]

LatestFirst(rows) == rows[1]

(* df.iloc[-1] *)
Latest(rows) == rows[Len(rows)]

create_temperature_chart(rows) ==
  [mark |-> "line",
   data |-> [i \in 1..Len(rows) |->
               [x |-> rows[i].Timestamp, y |-> rows[i].Temperature,
                tooltip |-> <<rows[i].FormattedTime, rows[i].Temperature>>]]]

(* filtered_df[['FormattedTime', 'Temperature']].to_csv(index=False) *)
to_csv(rows) ==
  <<<<"FormattedTime", "Temperature">>>>
    \o [i \in 1..Len(rows) |-> <<rows[i].FormattedTime, rows[i].Temperature>>]

(***************************************************************************)
(* The two core functions on their own: an input is drawn, the normalizer  *)
(* is applied to it, and the range filter to the frame it returned.        *)
(***************************************************************************)
InitCore ==
  /\ pc = "call"
  /\ temp_data \in Replies(Keys, MaxEntries)
  /\ df = NoneValue
  /\ ret = NoneValue
  /\ session_state = NoSession
  /\ filtered_df = <<>>
  /\ chart_placeholder = <<>>
  /\ latest_temp_placeholder = <<>>
  /\ latest_time_placeholder = <<>>
  /\ download = NoWidget
  /\ exc = NoException

CallFetch ==
  /\ pc = "call"
  /\ ret' = fetch_temperature_data(temp_data)
  /\ pc' = "returned"
  /\ UNCHANGED <<temp_data, df, session_state, filtered_df, chart_placeholder,
                 latest_temp_placeholder, latest_time_placeholder, download, exc>>

CallFilter ==
  /\ pc = "returned"
  /\ ret.kind = "DataFrame"
  /\ \E s \in Session(FilterDates, FilterTimes) :
       /\ session_state' = s
       /\ filtered_df' = filter_data_by_datetime_range(
                            ret.rows, s.start_date, s.start_time,
                            s.end_date, s.end_time)
  /\ pc' = "filtered"
  /\ UNCHANGED <<temp_data, df, ret, chart_placeholder,
                 latest_temp_placeholder, latest_time_placeholder, download, exc>>

NextCore == CallFetch \/ CallFilter

SpecCore == InitCore /\ [][NextCore]_vars

(***************************************************************************)
(* One run of main: the widgets, the first fetch and render, then the      *)
(* polling loop.  An exception that leaves fetch_temperature_data is       *)
(* caught nowhere, so it leaves main and the run is over ("crashed").      *)
(***************************************************************************)
Init ==
  /\ pc = "widgets"
  /\ temp_data = [kind |-> "None", items |-> <<>>]
  /\ df = NoneValue
  /\ ret = NoneValue
  /\ session_state = NoSession
  /\ filtered_df = <<>>
  /\ chart_placeholder = <<>>
  /\ latest_temp_placeholder = <<>>
  /\ latest_time_placeholder = <<>>
  /\ download = NoWidget
  /\ exc = NoException

(* Lines 107-142: the placeholders are created empty and the four pickers  *)
(* give the session its start and end date and time.                       *)
Widgets ==
  /\ pc = "widgets"
  /\ session_state' \in Session(PollDates, PollTimes)
  /\ pc' = "initial_fetch"
  /\ UNCHANGED <<temp_data, df, ret, filtered_df, chart_placeholder,
                 latest_temp_placeholder, latest_time_placeholder, download, exc>>

(* Lines 145-146. *)
InitialFetch ==
  /\ pc = "initial_fetch"
  /\ df.kind = "None"
  /\ \E reply \in Replies(PollKeys, MaxPollEntries) :
       LET r == fetch_temperature_data(reply)
       IN  /\ temp_data' = reply
           /\ IF r.kind = "raise"
              THEN /\ pc' = "crashed"
                   /\ exc' = [error |-> r.error, line |-> 146]
                   /\ df' = df
              ELSE /\ pc' = "initial_render"
                   /\ exc' = exc
                   /\ df' = r
  /\ UNCHANGED <<ret, session_state, filtered_df, chart_placeholder,
                 latest_temp_placeholder, latest_time_placeholder, download>>

(* Lines 149-174. *)
InitialRender ==
  /\ pc = "initial_render"
  /\ IF df.kind # "None"
     THEN LET f == filter_data_by_datetime_range(
                     df.rows, session_state.start_date, session_state.start_time,
                     session_state.end_date, session_state.end_time)
          IN  /\ latest_temp_placeholder' = <<Latest(df.rows).Temperature>>
              /\ latest_time_placeholder' = <<Latest(df.rows).FormattedTime>>
              /\ chart_placeholder' = <<create_temperature_chart(df.rows)>>
              /\ filtered_df' = f
              /\ download' =
                   IF Len(f) > 0
                   THEN [widget |-> "download_button", data |-> to_csv(f)]
                   ELSE [widget |-> "no_data_text", data |-> <<>>]
     ELSE UNCHANGED <<latest_temp_placeholder, latest_time_placeholder,
                      chart_placeholder, filtered_df, download>>
  /\ pc' = "loop_fetch"
  /\ UNCHANGED <<temp_data, df, ret, session_state, exc>>

(* Line 213. *)
LoopFetch ==
  /\ pc = "loop_fetch"
  /\ \E reply \in Replies(PollKeys, MaxPollEntries) :
       LET r == fetch_temperature_data(reply)
       IN  /\ temp_data' = reply
           /\ IF r.kind = "raise"
              THEN /\ pc' = "crashed"
                   /\ exc' = [error |-> r.error, line |-> 213]
                   /\ df' = df
              ELSE /\ pc' = "loop_check"
                   /\ exc' = exc
                   /\ df' = r
  /\ UNCHANGED <<ret, session_state, filtered_df, chart_placeholder,
                 latest_temp_placeholder, latest_time_placeholder, download>>

(* Lines 214-222, df is not None. *)
LoopRender ==
  /\ pc = "loop_check"
  /\ df.kind # "None"
  /\ latest_temp_placeholder' = <<Latest(df.rows).Temperature>>
  /\ latest_time_placeholder' = <<Latest(df.rows).FormattedTime>>
  /\ chart_placeholder' = <<create_temperature_chart(df.rows)>>
  /\ pc' = "sleep"
  /\ UNCHANGED <<temp_data, df, ret, session_state, filtered_df, download, exc>>

(* Line 214, df is None: the body of the if, the sleep included, is        *)
(* skipped and the loop goes straight back to line 213.                    *)
LoopSkip ==
  /\ pc = "loop_check"
  /\ df.kind = "None"
  /\ pc' = "loop_fetch"
  /\ UNCHANGED <<temp_data, df, ret, session_state, filtered_df,
                 chart_placeholder, latest_temp_placeholder,
                 latest_time_placeholder, download, exc>>

(* Line 223. *)
Sleep ==
  /\ pc = "sleep"
  /\ pc' = "loop_fetch"
  /\ UNCHANGED <<temp_data, df, ret, session_state, filtered_df,
                 chart_placeholder, latest_temp_placeholder,
                 latest_time_placeholder, download, exc>>

Next ==
  \/ Widgets
  \/ InitialFetch
  \/ InitialRender
  \/ LoopFetch
  \/ LoopRender
  \/ LoopSkip
  \/ Sleep

Spec == Init /\ [][Next]_vars

(***************************************************************************)
(* Properties of the normalizer and the range filter, under SpecCore.      *)
(***************************************************************************)
Returned == pc \in {"returned", "filtered"}

Items == temp_data.items

AllKeysParse ==
  temp_data.kind = "dict" /\ \A i \in 1..Len(Items) : Parses(Items[i][1])

WellFormedInput == AllKeysParse /\ Len(Items) >= 1

KeyInts == [i \in 1..Len(Items) |-> IntOf(Items[i][1])]

CountIn(seq, x) == Cardinality({i \in 1..Len(seq) : seq[i] = x})

NonDecreasing(rows) ==
  \A i, j \in 1..Len(rows) : i < j => rows[i].Timestamp <= rows[j].Timestamp

(* C1: for a mapping of N >= 1 unique keys that all parse as integers, the *)
(* normalizer returns a frame of N rows whose Timestamps are               *)
(* non-decreasing and are the keys' integer values in ascending numeric    *)
(* order (9 before 10), not the keys' string order.                        *)
C1_NumericOrder ==
  (Returned /\ WellFormedInput) =>
    /\ ret.kind = "DataFrame"
    /\ Len(ret.rows) = Len(Items)
    /\ NonDecreasing(ret.rows)
    /\ \E p \in Permutations(1..Len(Items)) :
         \A i \in 1..Len(Items) : ret.rows[i].Timestamp = KeyInts[p[i]]

C1_Witness ==
  /\ pc = "returned"
  /\ WellFormedInput
  /\ Len(Items) = 2
  /\ Items[1][1] = <<"1", "0">>
  /\ Items[2][1] = <<"9">>
  /\ ret.rows[1].Timestamp = 9
  /\ ret.rows[2].Timestamp = 10

InputPairs == [i \in 1..Len(Items) |-> <<KeyInts[i], Items[i][2]>>]

OutputPairs ==
  [i \in 1..Len(ret.rows) |-> <<ret.rows[i].Timestamp, ret.rows[i].Temperature>>]

(* C2: for a non-empty mapping whose keys all parse, the output holds      *)
(* every input entry exactly once and nothing else: the (integer key,      *)
(* Temperature) pairs of the rows are, as a multiset, those of the input.  *)
C2_EveryEntryOnce ==
  (Returned /\ WellFormedInput) =>
    /\ ret.kind = "DataFrame"
    /\ Len(OutputPairs) = Len(InputPairs)
    /\ \A i \in 1..Len(InputPairs) :
         CountIn(OutputPairs, InputPairs[i]) = CountIn(InputPairs, InputPairs[i])

C2_Witness ==
  /\ pc = "returned"
  /\ WellFormedInput
  /\ Len(Items) = 3
  /\ \E i, j \in 1..3 : i # j /\ KeyInts[i] = KeyInts[j] /\ Items[i][2] # Items[j][2]
  /\ Len(ret.rows) = 3

FilterStart == combine(session_state.start_date, session_state.start_time)

FilterEnd == combine(session_state.end_date, session_state.end_time)

InRange(row) == FilterStart <= row.Timestamp /\ row.Timestamp <= FilterEnd

(* C3: the range filter returns exactly the rows with                      *)
(* start <= Timestamp <= end (both ends inclusive), in their original      *)
(* order and as one contiguous run of the sorted input; with start > end   *)
(* the result is empty.                                                    *)
C3_ClosedRangeRun ==
  pc = "filtered" =>
    /\ \E lo \in 1..(Len(ret.rows) + 1) : \E hi \in 0..Len(ret.rows) :
         /\ filtered_df = SubSeq(ret.rows, lo, hi)
         /\ \A i \in 1..Len(ret.rows) : (lo <= i /\ i <= hi) <=> InRange(ret.rows[i])
    /\ FilterStart > FilterEnd => filtered_df = <<>>

C3_Witness ==
  /\ pc = "filtered"
  /\ Len(ret.rows) = 3
  /\ Len(filtered_df) = 2
  /\ filtered_df[1].Timestamp = FilterStart
  /\ filtered_df[2].Timestamp = FilterEnd

(* C4: if any key of the mapping does not parse as an integer the          *)
(* normalizer raises for the whole batch: no frame is returned, not even   *)
(* one of the well-formed entries, wherever the malformed key stands.      *)
C4_MalformedKeyAborts ==
  (Returned /\ temp_data.kind = "dict"
     /\ \E i \in 1..Len(Items) : ~Parses(Items[i][1])) =>
    /\ ret.kind = "raise"
    /\ ret.error = "ValueError"
    /\ ret.rows = <<>>

C4_Witness ==
  /\ pc = "returned"
  /\ temp_data.kind = "dict"
  /\ Len(Items) = 3
  /\ Parses(Items[1][1])
  /\ ~Parses(Items[2][1])
  /\ Parses(Items[3][1])
  /\ ret.kind = "raise"

StrictlyIncreasing(rows) ==
  \A i \in 1..(Len(rows) - 1) : rows[i].Timestamp < rows[i + 1].Timestamp

(* C6 as stated: for unique string keys that all parse, adjacent output    *)
(* rows have strictly increasing Timestamps.                               *)
C6_StrictlyOrdered ==
  (Returned /\ WellFormedInput) =>
    ret.kind = "DataFrame" /\ StrictlyIncreasing(ret.rows)

(* C6 amended: adjacent output rows have non-decreasing Timestamps, and    *)
(* two adjacent rows share an instant only when two distinct keys denote   *)
(* the same integer ("9" and "09"); when the keys' integer values are      *)
(* pairwise distinct the order is strict.                                  *)
C6_StrictUnlessSameInteger ==
  (Returned /\ WellFormedInput) =>
    /\ ret.kind = "DataFrame"
    /\ \A i \in 1..(Len(ret.rows) - 1) :
         \/ ret.rows[i].Timestamp < ret.rows[i + 1].Timestamp
         \/ /\ ret.rows[i].Timestamp = ret.rows[i + 1].Timestamp
            /\ \E a, b \in 1..Len(Items) :
                 /\ a # b
                 /\ KeyInts[a] = ret.rows[i].Timestamp
                 /\ KeyInts[b] = ret.rows[i].Timestamp
    /\ (\A a, b \in 1..Len(Items) : a # b => KeyInts[a] # KeyInts[b])
         => StrictlyIncreasing(ret.rows)

C6_Witness ==
  /\ pc = "returned"
  /\ WellFormedInput
  /\ Len(Items) = 3
  /\ ret.kind = "DataFrame"
  /\ ret.rows[1].Timestamp = 9
  /\ ret.rows[2].Timestamp = 9
  /\ ret.rows[3].Timestamp = 19

(***************************************************************************)
(* Properties of the polling loop, under Spec.                             *)
(***************************************************************************)

(* C7: in the polling loop every two consecutive fetches are separated by  *)
(* the sleep: control comes to the fetch of line 213 only from the sleep   *)
(* (or, the first time, from the initial render), whatever the previous    *)
(* fetch returned.                                                         *)
C7_SleepBetweenFetches ==
  [][pc' = "loop_fetch" => pc \in {"sleep", "initial_render", "loop_fetch"}]_vars

(* C8: a failed read of the store during a poll tick never ends the loop.  *)
C8_FailedReadKeepsLooping ==
  ~(pc = "crashed" /\ exc.error = "FirebaseError" /\ exc.line = 213)

(* C9: once a cycle whose fetch yielded no data is over, the chart and the *)
(* latest-reading fields show nothing of an earlier snapshot.              *)
C9_NoDataShown ==
  (pc = "loop_fetch" /\ df.kind = "None") =>
    /\ chart_placeholder = <<>>
    /\ latest_temp_placeholder = <<>>
    /\ latest_time_placeholder = <<>>

MaxKeyInt == CHOOSE m \in {KeyInts[i] : i \in 1..Len(Items)} :
               \A i \in 1..Len(Items) : KeyInts[i] <= m

ChartPairs ==
  [i \in 1..Len(chart_placeholder[1].data) |->
     <<chart_placeholder[1].data[i].x, chart_placeholder[1].data[i].y>>]

(* C10: after every render the chart, the latest temperature and the       *)
(* latest time come from the one snapshot fetched last, and the latest     *)
(* temperature and time are those of an entry with the greatest numeric    *)
(* key of that snapshot.                                                   *)
C10_RenderFromOneSnapshot ==
  (pc \in {"loop_fetch", "sleep"} /\ df.kind = "DataFrame") =>
    /\ Len(chart_placeholder) = 1
    /\ Len(ChartPairs) = Len(InputPairs)
    /\ \A i \in 1..Len(InputPairs) :
         CountIn(ChartPairs, InputPairs[i]) = CountIn(InputPairs, InputPairs[i])
    /\ latest_time_placeholder = <<strftime(MaxKeyInt)>>
    /\ \E i \in 1..Len(Items) :
         /\ KeyInts[i] = MaxKeyInt
         /\ latest_temp_placeholder = <<Items[i][2]>>

C10_Witness ==
  /\ pc = "sleep"
  /\ Len(Items) = 2
  /\ Items[1] = <<<<"1", "0">>, 25>>
  /\ Items[2] = <<<<"9">>, 20>>
  /\ latest_temp_placeholder = <<25>>
  /\ latest_time_placeholder =
       <<<<"0", "0", ":", "0", "0", ":", "1", "0", " ",
           "0", "1", "/", "0", "1", "/", "1", "9", "7", "0">>>>

====
